---- MODULE Spec2Model ----
(***************************************************************************)
(* Model of music.py (midi-to-video): the tick indexer, the note scheduler *)
(* (generate_track_plan / turn_on_note / turn_off_note), the lane scan of  *)
(* create_video and the clip resolver map_videos.                          *)
(*                                                                         *)
(* Seconds are Python floats in the source.  They are modelled as exact    *)
(* rationals <<numerator, denominator>> in lowest terms (denominator > 0), *)
(* so arithmetic identities are checked up to floating-point rounding.     *)
(* Python's None is modelled as the empty tuple <<>> and a present value v *)
(* as <<v>>.                                                               *)
(***************************************************************************)
EXTENDS Integers, Sequences, FiniteSets, TLC

VARIABLES
    pc,                       \* position in the modelled call
    pattern,                  \* the parsed midi file: [resolution, tracks]
    max_ticks, resolution, initial_tempo,   \* results of analyze_midi
    event_map,                \* result of map_events_by_tick
    sched,                    \* [plan, notes_currently_playing, hist] of generate_track_plan
    seconds_per_tick,         \* local of generate_track_plan
    max_stack,                \* local of generate_track_plan
    current_tick,             \* loop variable of generate_track_plan
    ei,                       \* index of the next event in event_map[current_tick]
    tempo_changes,            \* history: number of SetTempoEvents processed by the loop
    args,                     \* keyword arguments of create_video
    video_map,                \* result of map_videos, argument of create_video
    end_time, look_ahead, look_ahead_group_size, look_ahead_index,
                              \* locals of create_video
    plan_key,                 \* loop variable of create_video (1-based here)
    clips,                    \* clips handed to CompositeVideoClip
    ann,                      \* history: lane annotation of every record scanned
    progress,                 \* history: calls of notification_callback
    warned,                   \* history: warnings.warn calls
    files,                    \* the files of the clip directory
    map_n,                    \* loop variable n of map_videos
    probed                    \* history: os.path.isfile calls of the last iteration

schedVars == <<pattern, max_ticks, resolution, initial_tempo, event_map,
               seconds_per_tick, max_stack, current_tick, ei, tempo_changes>>
videoVars == <<args, end_time, look_ahead, look_ahead_group_size, look_ahead_index,
               plan_key, clips, ann, progress>>
mapVars == <<files, map_n, probed>>

vars == <<pc, sched, video_map, warned, schedVars, videoVars, mapVars>>

----------------------------------------------------------------------------
(* Bounds and input sets *)

MaxEvents == 3
MaxPlan == 4
MaxVTick == 3
MaxWidth == 12
MaxLanes == 4

Deltas == {0, 1}
Pitches == {60}
Channels == {0, 1}
Velocities == {100}
Bpms == {60}
Resolutions == {2}

----------------------------------------------------------------------------
(* Exact rationals standing for Python floats *)

Abs(x) == IF x < 0 THEN -x ELSE x

RECURSIVE GCD(_, _)
GCD(a, b) == IF b = 0 THEN a ELSE GCD(b, a % b)

Rat(n, d) ==
    LET g == GCD(Abs(n), Abs(d))
        s == IF d < 0 THEN -1 ELSE 1
    IN  <<(s * n) \div g, (s * d) \div g>>

Zero == <<0, 1>>
RDivInt(r, k) == Rat(r[1], r[2] * k)
RMulInt(r, k) == Rat(r[1] * k, r[2])
RSub(a, b) == Rat(a[1] * b[2] - b[1] * a[2], a[2] * b[2])
RLess(a, b) == a[1] * b[2] < b[1] * a[2]
RAdd(a, b) == Rat(a[1] * b[2] + b[1] * a[2], a[2] * b[2])
RInt(k) == <<k, 1>>
RFloor(r) == r[1] \div r[2]

----------------------------------------------------------------------------
(* Events of the midi library, as the code reads them *)

None == <<>>

SetTempoEvent(tick, bpm) == [type |-> "SetTempoEvent", tick |-> tick, bpm |-> bpm]
NoteOnEvent(tick, pitch, channel, velocity) ==
    [type |-> "NoteOnEvent", tick |-> tick, pitch |-> pitch, channel |-> channel,
     velocity |-> velocity]
NoteOffEvent(tick, pitch, channel) ==
    [type |-> "NoteOffEvent", tick |-> tick, pitch |-> pitch, channel |-> channel]
TrackNameEvent(tick) == [type |-> "TrackNameEvent", tick |-> tick]
EndOfTrackEvent(tick) == [type |-> "EndOfTrackEvent", tick |-> tick]

TrackEvents ==
    {SetTempoEvent(d, b) : d \in Deltas, b \in Bpms}
    \cup {NoteOnEvent(d, p, c, v) : d \in Deltas, p \in Pitches, c \in Channels,
                                    v \in Velocities}
    \cup {NoteOffEvent(d, p, c) : d \in Deltas, p \in Pitches, c \in Channels}
    \cup {TrackNameEvent(d) : d \in Deltas}

Tracks == UNION {[1..n -> TrackEvents] : n \in 0..MaxEvents}

\* Track 0 of a pattern (never scheduled: main schedules a track of index >= 1)
Conductors ==
    { <<>>,
      <<EndOfTrackEvent(4)>>,
      <<SetTempoEvent(0, 120), EndOfTrackEvent(4)>>,
      <<SetTempoEvent(0, 30), EndOfTrackEvent(4)>> }

Patterns ==
    {[resolution |-> r, tracks |-> <<c, t>>] :
        r \in Resolutions, c \in Conductors, t \in Tracks}

----------------------------------------------------------------------------
(* Pure functions of music.py *)

NOTE_NAMES == <<"C", "Cs", "D", "Ds", "E", "F", "Fs", "G", "Gs", "A", "As", "B">>
NOTE_PER_OCTAVE == 12
OCTAVE_MAX_VALUE == 12

value_to_note(value) ==
    LET noteidx == value % NOTE_PER_OCTAVE
        octidx == value \div OCTAVE_MAX_VALUE
    IN  <<NOTE_NAMES[noteidx + 1], octidx>>

RECURSIVE TrackTotal(_)
TrackTotal(track) ==
    IF track = <<>> THEN 0 ELSE track[1].tick + TrackTotal(Tail(track))

RECURSIVE Concat(_)
Concat(seqs) == IF seqs = <<>> THEN <<>> ELSE seqs[1] \o Concat(Tail(seqs))

\* mutant: a missing tempo falls back to 120 bpm instead of None
analyze_midi_DefaultTempo(p) ==
    LET all == Concat(p.tracks)
        tempos == SelectSeq(all, LAMBDA e : e.type = "SetTempoEvent")
        totals == {TrackTotal(p.tracks[i]) : i \in DOMAIN p.tracks} \cup {0}
    IN  [max_ticks |-> CHOOSE m \in totals : \A x \in totals : x <= m,
         resolution |-> p.resolution,
         initial_tempo |-> IF tempos = <<>> THEN <<120>> ELSE <<tempos[1].bpm>>]

analyze_midi(p) ==
    LET all == Concat(p.tracks)
        tempos == SelectSeq(all, LAMBDA e : e.type = "SetTempoEvent")
        totals == {TrackTotal(p.tracks[i]) : i \in DOMAIN p.tracks} \cup {0}
    IN  [max_ticks |-> CHOOSE m \in totals : \A x \in totals : x <= m,
         resolution |-> p.resolution,
         initial_tempo |-> IF tempos = <<>> THEN None ELSE <<tempos[1].bpm>>]

grab_track_by_index(p, index) ==
    IF index < Len(p.tracks) THEN <<p.tracks[index + 1]>> ELSE None

EmptyMap == [x \in {} |-> <<>>]

RECURSIVE IndexFrom(_, _, _, _)
IndexFrom(track, i, tick, map) ==
    IF i > Len(track) THEN map
    ELSE LET t == tick + track[i].tick
             m == IF t \in DOMAIN map THEN map ELSE map @@ (t :> <<>>)
         IN  IndexFrom(track, i + 1, t, [m EXCEPT ![t] = Append(@, track[i])])

\* mutant: events are filed under their tick delta, not their absolute tick
map_events_by_tick_Delta(track) ==
    [t \in {track[i].tick : i \in DOMAIN track} |->
        SelectSeq(track, LAMBDA e : e.tick = t)]

map_events_by_tick(track) == IndexFrom(track, 1, 0, EmptyMap)

\* mutant: the coefficient is in seconds per beat, the resolution left out
calculate_seconds_per_tick_PerBeat(tempo, res) ==
    RDivInt(RDivInt(Rat(60 * 1000000, 1), tempo), 1000000)

calculate_seconds_per_tick(tempo, res) ==
    RDivInt(RDivInt(RDivInt(Rat(60 * 1000000, 1), tempo), res), 1000000)

\* mutant: the key leaves out the channel
get_note_key_NoChannel(note, octave, channel) == note \o ToString(octave)

get_note_key(note, octave, channel) ==
    note \o ToString(octave) \o "-" \o ToString(channel)

----------------------------------------------------------------------------
(* The scheduler's mutable state: plan (a list of tuples                    *)
(* <<start_tick, start_seconds, note, octave, duration, velocity>>),        *)
(* notes_currently_playing (key -> index into plan, 0-based in the source,  *)
(* 1-based here) and hist, a history record per plan entry: the channel and *)
(* event index of its NoteOn, the number of times its duration was written, *)
(* and the tick, event index, coefficient and tempo count of its close.     *)

EmptySched == [plan |-> <<>>, notes_currently_playing |-> EmptyMap, hist |-> <<>>]

RemoveKey(f, k) == [x \in (DOMAIN f) \ {k} |-> f[x]]

CloseHist(h, tick) ==
    [h EXCEPT !.writes = @ + 1, !.off_tick = tick, !.off_ev = ei,
              !.off_spt = seconds_per_tick, !.off_tempo = tempo_changes]

\* mutant: the rewritten record takes the tick of the close as its start_tick
turn_off_note_CloseTick(note, octave, channel, spt, tick, st) ==
    LET key == get_note_key(note, octave, channel)
        current_seconds_in_track == RMulInt(spt, tick)
    IN  IF key \in DOMAIN st.notes_currently_playing
        THEN LET note_index == st.notes_currently_playing[key]
                 rec == st.plan[note_index]
                 duration == RSub(current_seconds_in_track, rec[2])
             IN  [plan |-> [st.plan EXCEPT ![note_index] =
                               <<tick, rec[2], rec[3], rec[4], duration, rec[6]>>],
                  notes_currently_playing |-> RemoveKey(st.notes_currently_playing, key),
                  hist |-> [st.hist EXCEPT ![note_index] = CloseHist(@, tick)]]
        ELSE st

\* mutant: the duration is the absolute time of the close
turn_off_note_AbsoluteEnd(note, octave, channel, spt, tick, st) ==
    LET key == get_note_key(note, octave, channel)
        current_seconds_in_track == RMulInt(spt, tick)
    IN  IF key \in DOMAIN st.notes_currently_playing
        THEN LET note_index == st.notes_currently_playing[key]
                 rec == st.plan[note_index]
             IN  [plan |-> [st.plan EXCEPT ![note_index] =
                               <<rec[1], rec[2], rec[3], rec[4],
                                 current_seconds_in_track, rec[6]>>],
                  notes_currently_playing |-> RemoveKey(st.notes_currently_playing, key),
                  hist |-> [st.hist EXCEPT ![note_index] = CloseHist(@, tick)]]
        ELSE st

\* mutant: the key stays in the open-note index after the close
turn_off_note_NoPop(note, octave, channel, spt, tick, st) ==
    LET key == get_note_key(note, octave, channel)
        current_seconds_in_track == RMulInt(spt, tick)
    IN  IF key \in DOMAIN st.notes_currently_playing
        THEN LET note_index == st.notes_currently_playing[key]
                 rec == st.plan[note_index]
                 duration == RSub(current_seconds_in_track, rec[2])
             IN  [plan |-> [st.plan EXCEPT ![note_index] =
                               <<rec[1], rec[2], rec[3], rec[4], duration, rec[6]>>],
                  notes_currently_playing |-> st.notes_currently_playing,
                  hist |-> [st.hist EXCEPT ![note_index] = CloseHist(@, tick)]]
        ELSE st

turn_off_note(note, octave, channel, spt, tick, st) ==
    LET key == get_note_key(note, octave, channel)
        current_seconds_in_track == RMulInt(spt, tick)
    IN  IF key \in DOMAIN st.notes_currently_playing
        THEN LET note_index == st.notes_currently_playing[key]
                 rec == st.plan[note_index]
                 duration == RSub(current_seconds_in_track, rec[2])
             IN  [plan |-> [st.plan EXCEPT ![note_index] =
                               <<rec[1], rec[2], rec[3], rec[4], duration, rec[6]>>],
                  notes_currently_playing |-> RemoveKey(st.notes_currently_playing, key),
                  hist |-> [st.hist EXCEPT ![note_index] = CloseHist(@, tick)]]
        ELSE st

NewHist(channel) ==
    [channel |-> channel, ev |-> ei, writes |-> 0, on_spt |-> seconds_per_tick,
     on_tempo |-> tempo_changes, off_tick |-> 0, off_ev |-> 0, off_spt |-> Zero,
     off_tempo |-> 0]

\* mutant: a NoteOn on an open key does not close the prior record
turn_on_note_NoClose(note, octave, channel, spt, tick, st, velocity) ==
    LET seconds_in_track == RMulInt(spt, tick)
        key == get_note_key(note, octave, channel)
        plan1 == Append(st.plan, <<tick, seconds_in_track, note, octave, Zero, velocity>>)
    IN  [plan |-> plan1,
         notes_currently_playing |->
             (key :> Len(plan1)) @@ st.notes_currently_playing,
         hist |-> Append(st.hist, NewHist(channel))]

turn_on_note(note, octave, channel, spt, tick, st, velocity) ==
    LET seconds_in_track == RMulInt(spt, tick)
        key == get_note_key(note, octave, channel)
        st1 == IF key \in DOMAIN st.notes_currently_playing
               THEN LET rec == st.plan[st.notes_currently_playing[key]]
                    IN  turn_off_note(rec[3], rec[4], channel, spt, tick, st)
               ELSE st
        plan1 == Append(st1.plan, <<tick, seconds_in_track, note, octave, Zero, velocity>>)
    IN  [plan |-> plan1,
         notes_currently_playing |->
             (key :> Len(plan1)) @@ st1.notes_currently_playing,
         hist |-> Append(st1.hist, NewHist(channel))]

----------------------------------------------------------------------------
(* main's scheduling path: analyze_midi, map_events_by_tick,                *)
(* generate_track_plan                                                      *)

VideoIdle ==
    /\ args = None
    /\ end_time = Zero
    /\ look_ahead = 0
    /\ look_ahead_group_size = 0
    /\ look_ahead_index = 0
    /\ plan_key = 1
    /\ clips = <<>>
    /\ ann = <<>>
    /\ progress = <<>>

MapIdle ==
    /\ files = {}
    /\ map_n = 0
    /\ probed = <<>>

Init ==
    /\ pc = "analyze"
    /\ pattern \in Patterns
    /\ max_ticks = 0
    /\ resolution = 0
    /\ initial_tempo = None
    /\ event_map = EmptyMap
    /\ sched = EmptySched
    /\ seconds_per_tick = Zero
    /\ max_stack = 0
    /\ current_tick = 0
    /\ ei = 1
    /\ tempo_changes = 0
    /\ video_map = EmptyMap
    /\ warned = <<>>
    /\ VideoIdle
    /\ MapIdle

AnalyzeMidi ==
    /\ pc = "analyze"
    /\ LET a == analyze_midi(pattern)
       IN  /\ max_ticks' = a.max_ticks
           /\ resolution' = a.resolution
           /\ initial_tempo' = a.initial_tempo
    /\ pc' = "index"
    /\ UNCHANGED <<video_map, warned, videoVars, mapVars>>
    /\ UNCHANGED <<pattern, event_map, sched, seconds_per_tick, max_stack,
                   current_tick, ei, tempo_changes>>

MapEventsByTick ==
    /\ pc = "index"
    /\ event_map' = map_events_by_tick(grab_track_by_index(pattern, 1)[1])
    /\ pc' = "plan"
    /\ UNCHANGED <<video_map, warned, videoVars, mapVars>>
    /\ UNCHANGED <<pattern, max_ticks, resolution, initial_tempo, sched,
                   seconds_per_tick, max_stack, current_tick, ei, tempo_changes>>

\* generate_track_plan, lines 89-92; a None tempo raises TypeError in
\* calculate_seconds_per_tick
PlanStart ==
    /\ pc = "plan"
    /\ initial_tempo # None
    /\ sched' = EmptySched
    /\ seconds_per_tick' = calculate_seconds_per_tick(initial_tempo[1], resolution)
    /\ max_stack' = 0
    /\ current_tick' = 0
    /\ ei' = 1
    /\ pc' = "tick"
    /\ UNCHANGED <<video_map, warned, videoVars, mapVars>>
    /\ UNCHANGED <<pattern, max_ticks, resolution, initial_tempo, event_map,
                   tempo_changes>>

PlanTypeError ==
    /\ pc = "plan"
    /\ initial_tempo = None
    /\ pc' = "error"
    /\ UNCHANGED <<video_map, warned, videoVars, mapVars>>
    /\ UNCHANGED <<pattern, max_ticks, resolution, initial_tempo, event_map, sched,
                   seconds_per_tick, max_stack, current_tick, ei, tempo_changes>>

InTick == pc = "events" /\ ei <= Len(event_map[current_tick])
CurEvent == event_map[current_tick][ei]

Max(a, b) == IF a > b THEN a ELSE b

\* mutant: the loop also visits tick max_ticks
InRange_Inclusive(tick, stop) == 0 <= tick /\ tick <= stop

\* line 93: current_tick in range(max_ticks)
InRange(tick, stop) == 0 <= tick /\ tick < stop

\* for current_tick in range(max_ticks): a tick without events
SkipTick ==
    /\ pc = "tick"
    /\ InRange(current_tick, max_ticks)
    /\ current_tick \notin DOMAIN event_map
    /\ current_tick' = current_tick + 1
    /\ UNCHANGED <<video_map, warned, videoVars, mapVars>>
    /\ UNCHANGED <<pc, pattern, max_ticks, resolution, initial_tempo, event_map, sched,
                   seconds_per_tick, max_stack, ei, tempo_changes>>

EnterTick ==
    /\ pc = "tick"
    /\ InRange(current_tick, max_ticks)
    /\ current_tick \in DOMAIN event_map
    /\ max_stack' = Max(Len(event_map[current_tick]), max_stack)
    /\ ei' = 1
    /\ pc' = "events"
    /\ UNCHANGED <<video_map, warned, videoVars, mapVars>>
    /\ UNCHANGED <<pattern, max_ticks, resolution, initial_tempo, event_map, sched,
                   seconds_per_tick, current_tick, tempo_changes>>

OnSetTempo ==
    /\ InTick
    /\ CurEvent.type = "SetTempoEvent"
    /\ seconds_per_tick' = calculate_seconds_per_tick(CurEvent.bpm, resolution)
    /\ tempo_changes' = tempo_changes + 1
    /\ ei' = ei + 1
    /\ UNCHANGED <<video_map, warned, videoVars, mapVars>>
    /\ UNCHANGED <<pc, pattern, max_ticks, resolution, initial_tempo, event_map, sched,
                   max_stack, current_tick>>

OnNoteOn ==
    /\ InTick
    /\ CurEvent.type = "NoteOnEvent"
    /\ LET n == value_to_note(CurEvent.pitch)
       IN  sched' = turn_on_note(n[1], n[2], CurEvent.channel, seconds_per_tick,
                                 current_tick, sched, CurEvent.velocity)
    /\ ei' = ei + 1
    /\ UNCHANGED <<video_map, warned, videoVars, mapVars>>
    /\ UNCHANGED <<pc, pattern, max_ticks, resolution, initial_tempo, event_map,
                   seconds_per_tick, max_stack, current_tick, tempo_changes>>

OnNoteOff ==
    /\ InTick
    /\ CurEvent.type = "NoteOffEvent"
    /\ LET n == value_to_note(CurEvent.pitch)
       IN  sched' = turn_off_note(n[1], n[2], CurEvent.channel, seconds_per_tick,
                                  current_tick, sched)
    /\ ei' = ei + 1
    /\ UNCHANGED <<video_map, warned, videoVars, mapVars>>
    /\ UNCHANGED <<pc, pattern, max_ticks, resolution, initial_tempo, event_map,
                   seconds_per_tick, max_stack, current_tick, tempo_changes>>

\* any other event type falls through the if/elif chain
OnOtherEvent ==
    /\ InTick
    /\ CurEvent.type \notin {"SetTempoEvent", "NoteOnEvent", "NoteOffEvent"}
    /\ ei' = ei + 1
    /\ UNCHANGED <<video_map, warned, videoVars, mapVars>>
    /\ UNCHANGED <<pc, pattern, max_ticks, resolution, initial_tempo, event_map, sched,
                   seconds_per_tick, max_stack, current_tick, tempo_changes>>

EndTick ==
    /\ pc = "events"
    /\ ei > Len(event_map[current_tick])
    /\ current_tick' = current_tick + 1
    /\ pc' = "tick"
    /\ UNCHANGED <<video_map, warned, videoVars, mapVars>>
    /\ UNCHANGED <<pattern, max_ticks, resolution, initial_tempo, event_map, sched,
                   seconds_per_tick, max_stack, ei, tempo_changes>>

ReturnPlan ==
    /\ pc = "tick"
    /\ ~InRange(current_tick, max_ticks)
    /\ pc' = "done"
    /\ UNCHANGED <<video_map, warned, videoVars, mapVars>>
    /\ UNCHANGED <<pattern, max_ticks, resolution, initial_tempo, event_map, sched,
                   seconds_per_tick, max_stack, current_tick, ei, tempo_changes>>

Next ==
    \/ AnalyzeMidi
    \/ MapEventsByTick
    \/ PlanStart
    \/ PlanTypeError
    \/ SkipTick
    \/ EnterTick
    \/ OnSetTempo
    \/ OnNoteOn
    \/ OnNoteOff
    \/ OnOtherEvent
    \/ EndTick
    \/ ReturnPlan

Spec == Init /\ [][Next]_vars

----------------------------------------------------------------------------
(* Vocabulary of the scheduler properties *)

plan == sched.plan
notes_currently_playing == sched.notes_currently_playing
hist == sched.hist

Scheduling == pc \in {"tick", "events", "done"}

\* NoteKey of plan record i as the tuple (note-class, octave, channel)
KeyOf(i) == <<plan[i][3], plan[i][4], hist[i].channel>>
EventKey(e) == <<value_to_note(e.pitch)[1], value_to_note(e.pitch)[2], e.channel>>

\* records appended and not yet closed
OpenRecordsIn(st, k) ==
    {i \in 1..Len(st.plan) :
        /\ st.hist[i].writes = 0
        /\ <<st.plan[i][3], st.plan[i][4], st.hist[i].channel>> = k}
OpenRecords(k) == OpenRecordsIn(sched, k)
Closed(i) == hist[i].writes >= 1

\* C1: the plan is non-decreasing in start_tick in every state of scheduling
\* (also after a close rewrote a record), every record comes from one NoteOn
\* of its tick's event list, and records of one tick are in the order of
\* their NoteOn events in that list.
C1_PlanOrdered ==
    Scheduling =>
        /\ Len(hist) = Len(plan)
        /\ \A i \in 1..Len(plan) :
              /\ plan[i][1] \in DOMAIN event_map
              /\ hist[i].ev \in 1..Len(event_map[plan[i][1]])
              /\ LET e == event_map[plan[i][1]][hist[i].ev]
                 IN  /\ e.type = "NoteOnEvent"
                     /\ EventKey(e) = KeyOf(i)
                     /\ e.velocity = plan[i][6]
        /\ \A i, j \in 1..Len(plan) :
              i < j => /\ plan[i][1] <= plan[j][1]
                       /\ plan[i][1] = plan[j][1] => hist[i].ev < hist[j].ev

C1_Witness ==
    /\ pc = "done"
    /\ \E i, j, k \in 1..Len(plan) :
          /\ i < j /\ j < k
          /\ plan[i][1] = plan[j][1]
          /\ plan[j][1] < plan[k][1]
          /\ Closed(i)

\* no NoteKey has two open records
C2_OneOpenPerKey ==
    \A i, j \in 1..Len(plan) :
        (hist[i].writes = 0 /\ hist[j].writes = 0 /\ KeyOf(i) = KeyOf(j)) => i = j

\* a NoteOn on a key with an open record closes exactly that one record (the
\* registered one, at the current tick and coefficient), then appends and
\* registers the new record
C2_RetriggerStep ==
    (InTick /\ CurEvent.type = "NoteOnEvent") =>
        LET k == EventKey(CurEvent)
            key == get_note_key(k[1], k[2], k[3])
            open == OpenRecords(k)
            n == Len(plan)
        IN  /\ Len(plan') = n + 1
            /\ OpenRecordsIn(sched', k) = {n + 1}
            /\ notes_currently_playing'[key] = n + 1
            /\ \A i \in 1..n :
                  hist'[i].writes = hist[i].writes + (IF i \in open THEN 1 ELSE 0)
            /\ \A i \in open :
                  /\ open = {i}
                  /\ notes_currently_playing[key] = i
                  /\ hist'[i].off_tick = current_tick
                  /\ plan'[i][5] = RSub(RMulInt(seconds_per_tick, current_tick), plan[i][2])

\* C2 (retrigger law): in every state no NoteKey has two open records, and
\* every NoteOn step on a key with an open record closes exactly that record
\* before the new record is appended and registered.
C2_Retrigger == [](C2_OneOpenPerKey) /\ [][C2_RetriggerStep]_vars

\* a NoteOn closed record i and opened record j of the same key
Retriggered(i, j) ==
    /\ i < j
    /\ KeyOf(i) = KeyOf(j)
    /\ Closed(i)
    /\ hist[i].off_tick = plan[j][1]
    /\ hist[i].off_ev = hist[j].ev

C2_Witness ==
    /\ Scheduling
    /\ \E i, j \in 1..Len(plan) : Retriggered(i, j) /\ hist[j].writes = 0

\* C3: a record opened at tick a and closed at tick b with no SetTempoEvent
\* processed in between has duration seconds_per_tick * (b - a).
C3_ConstantTempoDuration ==
    Scheduling =>
        \A i \in 1..Len(plan) :
            (Closed(i) /\ hist[i].on_tempo = hist[i].off_tempo) =>
                /\ hist[i].off_spt = hist[i].on_spt
                /\ plan[i][5] = RMulInt(hist[i].on_spt, hist[i].off_tick - plan[i][1])

C3_Witness ==
    /\ pc = "done"
    /\ \E i, j \in 1..Len(plan) :
          /\ Retriggered(i, j)
          /\ hist[i].on_tempo = hist[i].off_tempo
          /\ plan[i][1] = 0
          /\ plan[j][1] > 0
          /\ plan[i][5] = RMulInt(seconds_per_tick, plan[j][1])
    /\ \E i \in 1..Len(plan) :
          /\ Closed(i)
          /\ event_map[hist[i].off_tick][hist[i].off_ev].type = "NoteOffEvent"
          /\ hist[i].on_tempo = hist[i].off_tempo
          /\ hist[i].off_tick > plan[i][1]

\* the duration of a record is written at most once, and is 0 until then
C6_Inv ==
    \A i \in 1..Len(plan) :
        /\ hist[i].writes <= 1
        /\ hist[i].writes = 0 => plan[i][5] = Zero

\* a step changes no field of a record but its duration, and that only when
\* it handles a NoteOn or NoteOff of the record's own NoteKey
C6_FrameStep ==
    /\ Len(plan') >= Len(plan)
    /\ \A i \in 1..Len(plan) :
          /\ plan'[i][1] = plan[i][1]
          /\ plan'[i][2] = plan[i][2]
          /\ plan'[i][3] = plan[i][3]
          /\ plan'[i][4] = plan[i][4]
          /\ plan'[i][6] = plan[i][6]
          /\ (plan'[i][5] # plan[i][5] \/ hist'[i].writes # hist[i].writes) =>
                /\ InTick
                /\ CurEvent.type \in {"NoteOnEvent", "NoteOffEvent"}
                /\ EventKey(CurEvent) = KeyOf(i)
                /\ hist[i].writes = 0
                /\ hist'[i].writes = 1

\* C6: a step never changes start_tick, start_seconds, note-class, octave
\* or velocity of a record; duration is written at most once, and only by a
\* NoteOn or NoteOff of the record's own NoteKey; a record never closed keeps
\* duration 0 (also when generate_track_plan has returned).
C6_Frame == [](C6_Inv) /\ [][C6_FrameStep]_vars

C6_Witness ==
    /\ pc = "done"
    /\ \E i, j \in 1..Len(plan) :
          /\ i < j
          /\ hist[i].writes = 0
          /\ plan[i][5] = Zero
          /\ Closed(j)
          /\ plan[j][5] # Zero

\* the step of a NoteOff whose NoteKey has no open record
C7_NoOpStep ==
    (/\ InTick
     /\ CurEvent.type = "NoteOffEvent"
     /\ OpenRecords(EventKey(CurEvent)) = {}) =>
        /\ plan' = plan
        /\ notes_currently_playing' = notes_currently_playing
        /\ pc' = "events"
        /\ ei' = ei + 1

\* C7: a NoteOff whose NoteKey has no open record changes neither the plan
\* nor the open-note index and raises no error: the loop goes on to the next
\* event.
C7_UnmatchedNoteOff == [][C7_NoOpStep]_vars

\* the event just processed was a NoteOff that closed nothing, while a record
\* of the same pitch on another channel is open
C7_Witness ==
    /\ pc = "events"
    /\ ei > 1
    /\ LET e == event_map[current_tick][ei - 1]
       IN  /\ e.type = "NoteOffEvent"
           /\ \A i \in 1..Len(plan) :
                 ~(Closed(i) /\ hist[i].off_tick = current_tick /\ hist[i].off_ev = ei - 1)
           /\ \E i \in 1..Len(plan) :
                 /\ hist[i].writes = 0
                 /\ plan[i][3] = value_to_note(e.pitch)[1]
                 /\ plan[i][4] = value_to_note(e.pitch)[2]
                 /\ hist[i].channel # e.channel

\* C8: in the returned plan a record has duration 0 only if it was never
\* closed (every closed record has a duration different from 0).
C8_ZeroMeansUnreleased ==
    pc = "done" => \A i \in 1..Len(plan) : Closed(i) => plan[i][5] # Zero

----------------------------------------------------------------------------
(* Initial tempo *)

ScheduledTrack == pattern.tracks[2]
IsNote(e) == e.type \in {"NoteOnEvent", "NoteOffEvent"}
NoteIndexes == {i \in 1..Len(ScheduledTrack) : IsNote(ScheduledTrack[i])}
FirstNote == CHOOSE i \in NoteIndexes : \A j \in NoteIndexes : i <= j

\* positions <<track, index>> of the tempo events of the pattern
TempoPositions ==
    UNION {{<<t, i>> : i \in {j \in 1..Len(pattern.tracks[t]) :
                                pattern.tracks[t][j].type = "SetTempoEvent"}} :
           t \in 1..Len(pattern.tracks)}

Precedes(q, r) == q[1] < r[1] \/ (q[1] = r[1] /\ q[2] <= r[2])

\* a tempo event stands before the first note of the scheduled track: in the
\* track itself, or at tick 0 of the conductor track
TempoBeforeFirstNote ==
    \E q \in TempoPositions : q[1] = 1 \/ q[2] < FirstNote

NotScheduled == pc \in {"analyze", "index", "plan", "error"} /\ plan = <<>>

\* C9 as claimed: with no tempo event before the first note, scheduling
\* fails before any plan record is produced.
C9_FailsWithoutEarlierTempo ==
    (NoteIndexes # {} /\ ~TempoBeforeFirstNote) => NotScheduled

\* C9 amended: scheduling fails (before any plan record) exactly when the
\* pattern holds no tempo event at all; otherwise the initial coefficient
\* is that of the first tempo event in track order, wherever it stands.
C9_FailsWithoutAnyTempo ==
    /\ TempoPositions = {} => NotScheduled
    /\ pc = "error" => TempoPositions = {} /\ plan = <<>>
    /\ (Scheduling /\ tempo_changes = 0) =>
          \E q \in TempoPositions :
              /\ \A r \in TempoPositions : Precedes(q, r)
              /\ seconds_per_tick =
                    Rat(60, pattern.tracks[q[1]][q[2]].bpm * pattern.resolution)

C9_Witness ==
    /\ pc = "error"
    /\ \E i \in NoteIndexes : ScheduledTrack[i].type = "NoteOnEvent"

\* a schedule that ran on the coefficient of a tempo event after the first note
C9_LateTempoWitness ==
    /\ pc = "done"
    /\ NoteIndexes # {}
    /\ ~TempoBeforeFirstNote
    /\ Len(plan) > 0

----------------------------------------------------------------------------
(* create_video: the scan of the plan, with main's canvas size and the      *)
(* command line's default fade_time and volumex                             *)

MIN_DURATION == <<3, 10>>
Size == <<360, 240>>

Thresholds == {0, 1, 2}
Starts == {None, <<1>>}
Ends == {None, <<1>>, <<3>>}

VideoArgs ==
    {[start |-> s, end |-> e, combine_threashold |-> t, fade_time |-> <<3, 100>>,
      volumex |-> 2, shift_octave |-> 0, size |-> Size] :
        s \in Starts, e \in Ends, t \in Thresholds}

\* plans as generate_track_plan returns them at 60 bpm and resolution 2:
\* non-decreasing start_tick, start_seconds = seconds_per_tick * start_tick
VideoSpt == calculate_seconds_per_tick(60, 2)
VRecord(tick, pitch, duration) ==
    <<tick, RMulInt(VideoSpt, tick), value_to_note(pitch)[1], value_to_note(pitch)[2],
      duration, 100>>
VRecords ==
    {VRecord(t, 60, Zero) : t \in 0..MaxVTick}
    \cup {VRecord(t, 62, RInt(1)) : t \in 0..MaxVTick}
VPlans ==
    {p \in UNION {[1..k -> VRecords] : k \in 0..MaxPlan} :
        \A i \in 1..(Len(p) - 1) : p[i][1] <= p[i + 1][1]}

VideoMaps ==
    { ("C5" :> "videos/C5.mp4") @@ ("D5" :> "videos/D5.mp4"),
      ("C5" :> "videos/C5.mp4") @@ ("D5" :> "videos/D.mp4"),
      ("C5" :> "videos/C5.mp4") }

\* VideoFileClip(path).duration, a property of the clip file
clip_duration(path) ==
    IF path \in {"videos/C5.mp4", "videos/D.mp4"} THEN <<1, 5>> ELSE RInt(1)

\* lines 197-201: the hits of the lookahead from the record at look_tick
RECURSIVE CountHits(_, _, _, _)
CountHits(p, look_tick, j, theta) ==
    IF j > Len(p) THEN 0
    ELSE IF Abs(look_tick - p[j][1]) < theta
         THEN 1 + CountHits(p, look_tick, j + 1, theta)
         ELSE 0

\* mutant: lanes are numbered from the right
LaneIndex_Reversed(group_size, la) == la - 1

\* line 211
LaneIndex(group_size, la) == group_size - la

\* mutant: the leader is not counted into its own group
LaneStep_NoLeader(la, gs, p, key, theta) ==
    LET la1 == IF la = 0 THEN CountHits(p, p[key][1], key + 1, theta) ELSE la - 1
        gs1 == IF la = 0 /\ la1 > 0 THEN la1 ELSE gs
    IN  IF la1 > 0
        THEN [look_ahead |-> la1, look_ahead_group_size |-> gs1,
              look_ahead_index |-> LaneIndex(gs1, la1)]
        ELSE [look_ahead |-> la1, look_ahead_group_size |-> 0, look_ahead_index |-> 0]

\* lines 195-214
LaneStep(la, gs, p, key, theta) ==
    LET la1 == IF la = 0
               THEN LET k == CountHits(p, p[key][1], key + 1, theta)
                    IN  IF k > 0 THEN k + 1 ELSE 0
               ELSE la - 1
        gs1 == IF la = 0 /\ la1 > 0 THEN la1 ELSE gs
    IN  IF la1 > 0
        THEN [look_ahead |-> la1, look_ahead_group_size |-> gs1,
              look_ahead_index |-> LaneIndex(gs1, la1)]
        ELSE [look_ahead |-> la1, look_ahead_group_size |-> 0, look_ahead_index |-> 0]

\* lines 218: the key looked up in video_map
VideoKey(rec, a) == rec[3] \o ToString(rec[4] + a.shift_octave)

\* mutant: the lane width is rounded up
RowWidth_Ceil(width, gs) == (width + gs - 1) \div gs

\* line 263: math.floor(size[0] / look_ahead_group_size)
RowWidth(width, gs) == width \div gs

\* line 264: math.floor((size[0] / 2) - (row_width / 2))
CropX(width, row_width) == (width - row_width) \div 2

\* lines 263-266: the crop <<x1, width>> and the position of a lane
LaneClip(width, gs, idx) ==
    LET row_width == RowWidth(width, gs)
    IN  [crop |-> <<CropX(width, row_width), row_width>>,
         pos |-> <<row_width * idx, 0>>]

\* lines 220-266: the clip appended for a record with a mapped key
MakeClip(key, rec, idx, gs, a, path) ==
    LET seconds_in_track == rec[2]
        clip_start0 == IF a.start # None
                       THEN RSub(seconds_in_track, RInt(a.start[1]))
                       ELSE seconds_in_track
        clip_start == IF RLess(clip_start0, Zero) THEN Zero ELSE clip_start0
        source == clip_duration(path)
        d1 == IF RLess(MIN_DURATION, rec[5]) THEN MIN_DURATION ELSE rec[5]
        duration == IF RLess(source, d1) THEN source ELSE d1
        fade == a.fade_time
        released == RLess(Zero, duration)
        cut == /\ released
               /\ ~RLess(duration, fade)
               /\ RLess(Zero, fade)
               /\ RLess(source, RAdd(duration, fade))
        length == IF cut THEN RAdd(duration, fade)
                  ELSE IF released /\ RLess(source, duration) THEN duration
                  ELSE source
        grouped == idx # 0 \/ gs # 0
        lane == LaneClip(a.size[1], gs, idx)
    IN  [plan_key |-> key,
         path |-> path,
         start |-> clip_start,
         length |-> length,
         crossfadeout |-> IF cut \/ ~released THEN fade ELSE Zero,
         volume |-> Rat(rec[6] * a.volumex, 127),
         crop |-> IF grouped THEN lane.crop ELSE <<0, a.size[1]>>,
         pos |-> IF grouped THEN lane.pos ELSE <<0, 0>>]

\* lines 269-270: the arguments of notification_callback
Progress(rec, a) ==
    IF a.start = None
    THEN <<rec[2], end_time>>
    ELSE <<RInt(RFloor(RSub(rec[2], RInt(a.start[1])))),
           RInt(RFloor(RSub(end_time, RInt(a.start[1]))))>>

InitVideo ==
    /\ pc = "create_video"
    /\ \E p \in VPlans :
          sched = [plan |-> p, notes_currently_playing |-> EmptyMap, hist |-> <<>>]
    /\ args \in VideoArgs
    /\ video_map \in VideoMaps
    /\ warned = <<>>
    /\ end_time = Zero
    /\ look_ahead = 0
    /\ look_ahead_group_size = 0
    /\ look_ahead_index = 0
    /\ plan_key = 1
    /\ clips = <<>>
    /\ ann = <<>>
    /\ progress = <<>>
    /\ pattern = None
    /\ max_ticks = 0
    /\ resolution = 0
    /\ initial_tempo = None
    /\ event_map = EmptyMap
    /\ seconds_per_tick = Zero
    /\ max_stack = 0
    /\ current_tick = 0
    /\ ei = 1
    /\ tempo_changes = 0
    /\ MapIdle

EndWithinPlan == args.end # None /\ args.end[1] < Len(plan)

\* lines 174-183
VideoStart ==
    /\ pc = "create_video"
    /\ EndWithinPlan \/ Len(plan) > 0
    /\ end_time' = IF EndWithinPlan THEN RInt(args.end[1]) ELSE plan[Len(plan)][2]
    /\ clips' = <<>>
    /\ look_ahead' = 0
    /\ look_ahead_group_size' = 0
    /\ plan_key' = 1
    /\ pc' = IF Len(plan) = 0 THEN "compose" ELSE "scan"
    /\ UNCHANGED <<sched, video_map, warned, schedVars, mapVars, args,
                   look_ahead_index, ann, progress>>

\* line 179 on an empty plan: plan[-1] raises IndexError
VideoIndexError ==
    /\ pc = "create_video"
    /\ ~EndWithinPlan
    /\ Len(plan) = 0
    /\ pc' = "error"
    /\ UNCHANGED <<sched, video_map, warned, schedVars, mapVars, videoVars>>

Scanning == pc = "scan" /\ plan_key <= Len(plan)
Skipped == args.start # None /\ RLess(plan[plan_key][2], RInt(args.start[1]))
NextPc == IF plan_key + 1 > Len(plan) THEN "compose" ELSE "scan"

\* lines 186-187
ScanSkip ==
    /\ Scanning
    /\ Skipped
    /\ plan_key' = plan_key + 1
    /\ pc' = NextPc
    /\ UNCHANGED <<sched, video_map, warned, schedVars, mapVars, args, end_time,
                   look_ahead, look_ahead_group_size, look_ahead_index, clips, ann,
                   progress>>

LaneNow ==
    LaneStep(look_ahead, look_ahead_group_size, plan, plan_key, args.combine_threashold)

Annotate ==
    /\ look_ahead' = LaneNow.look_ahead
    /\ look_ahead_group_size' = LaneNow.look_ahead_group_size
    /\ look_ahead_index' = LaneNow.look_ahead_index
    /\ ann' = Append(ann, [plan_key |-> plan_key,
                           lane_index |-> LaneNow.look_ahead_index,
                           group_size |-> LaneNow.look_ahead_group_size])

\* lines 189-272 for a record whose key is mapped
ScanEmit ==
    /\ Scanning
    /\ ~Skipped
    /\ VideoKey(plan[plan_key], args) \in DOMAIN video_map
    /\ Annotate
    /\ clips' = Append(clips,
                   MakeClip(plan_key, plan[plan_key], LaneNow.look_ahead_index,
                            LaneNow.look_ahead_group_size, args,
                            video_map[VideoKey(plan[plan_key], args)]))
    /\ progress' = Append(progress, Progress(plan[plan_key], args))
    /\ plan_key' = plan_key + 1
    /\ pc' = IF args.end # None /\ ~RLess(plan[plan_key][2], end_time)
             THEN "compose"
             ELSE NextPc
    /\ UNCHANGED <<sched, video_map, warned, schedVars, mapVars, args, end_time>>

\* lines 189-214 and 273-274 for a record whose key is not mapped
ScanUnmapped ==
    /\ Scanning
    /\ ~Skipped
    /\ VideoKey(plan[plan_key], args) \notin DOMAIN video_map
    /\ Annotate
    /\ warned' = Append(warned, VideoKey(plan[plan_key], args))
    /\ plan_key' = plan_key + 1
    /\ pc' = NextPc
    /\ UNCHANGED <<sched, video_map, schedVars, mapVars, args, end_time, clips,
                   progress>>

\* lines 276-278
Compose ==
    /\ pc = "compose"
    /\ pc' = "done"
    /\ UNCHANGED <<sched, video_map, warned, schedVars, mapVars, videoVars>>

NextVideo ==
    \/ VideoStart
    \/ VideoIndexError
    \/ ScanSkip
    \/ ScanEmit
    \/ ScanUnmapped
    \/ Compose

SpecVideo == InitVideo /\ [][NextVideo]_vars

----------------------------------------------------------------------------
(* Lane grouping *)

NoWindow == args.start = None /\ args.end = None
Lanes == [i \in 1..Len(ann) |->
             [lane_index |-> ann[i].lane_index, group_size |-> ann[i].group_size]]

\* C4: with no start/end window every record scanned has exactly one
\* annotation, and a record annotated with group_size g > 0 and lane l lies
\* in a run of exactly g consecutive records, starting l records earlier,
\* that carry group_size g and lanes 0, 1, ..., g-1 in scan order.
C4_Partition ==
    (pc \in {"scan", "compose", "done"} /\ NoWindow) =>
        /\ Len(ann) = plan_key - 1
        /\ \A i \in 1..Len(ann) : ann[i].plan_key = i
        /\ pc \in {"compose", "done"} => Len(ann) = Len(plan)
        /\ \A i \in 1..Len(ann) :
              LET g == ann[i].group_size
                  first == i - ann[i].lane_index
              IN  IF g > 0
                  THEN /\ first >= 1
                       /\ first + g - 1 <= Len(plan)
                       /\ \A j \in first..(first + g - 1) :
                             j <= Len(ann) =>
                                 /\ ann[j].group_size = g
                                 /\ ann[j].lane_index = j - first
                  ELSE ann[i].lane_index = 0

\* two records one tick apart under threshold 2 form a group of size 2 with
\* lanes 0 and 1, next to a solo record
C4_Witness ==
    /\ pc = "done"
    /\ NoWindow
    /\ args.combine_threashold = 2
    /\ \E i \in 1..(Len(ann) - 1) :
          /\ plan[i + 1][1] = plan[i][1] + 1
          /\ Lanes[i] = [lane_index |-> 0, group_size |-> 2]
          /\ Lanes[i + 1] = [lane_index |-> 1, group_size |-> 2]
    /\ \E i \in 1..Len(ann) : Lanes[i] = [lane_index |-> 0, group_size |-> 0]

\* the greedy reference partition: the first record not yet grouped leads,
\* its group is the leader and the maximal run of immediately following
\* records less than theta ticks from the leader, and the record after the
\* group is the next leader
RunLength(p, i, theta) ==
    CHOOSE k \in 0..(Len(p) - i) :
        /\ \A j \in (i + 1)..(i + k) : Abs(p[j][1] - p[i][1]) < theta
        /\ (i + k < Len(p)) => ~(Abs(p[i + k + 1][1] - p[i][1]) < theta)

RECURSIVE Greedy(_, _, _)
Greedy(p, i, theta) ==
    IF i > Len(p) THEN <<>>
    ELSE LET k == RunLength(p, i, theta)
         IN  IF k > 0
             THEN [j \in 1..(k + 1) |-> [lane_index |-> j - 1, group_size |-> k + 1]]
                  \o Greedy(p, i + k + 1, theta)
             ELSE <<[lane_index |-> 0, group_size |-> 0]>> \o Greedy(p, i + 1, theta)

\* C5: the annotations of the scan are those of the greedy reference
\* partition.
C5_GreedyPartition ==
    (pc = "done" /\ NoWindow) => Lanes = Greedy(plan, 1, args.combine_threashold)

----------------------------------------------------------------------------
(* map_videos: the clip resolver over the default clip directory            *)

mid == 3
video_dir == "videos"
file_type == "mp4"

ExactPath(note, k) == video_dir \o "/" \o note \o ToString(k) \o "." \o file_type
GenericPath(note) == video_dir \o "/" \o note \o "." \o file_type

FileUniverse ==
    {GenericPath("C"), ExactPath("C", 2), ExactPath("C", 3), ExactPath("C", 4),
     ExactPath("C", 5), ExactPath("Cs", 3)}

\* os.path.isfile
isfile(path, dir) == path \in dir

\* lines 154 and 159: range(oct, mid+1) and range(oct, mid, -1)
SearchOrder(oct) ==
    IF oct <= mid
    THEN [i \in 1..(mid + 1 - oct) |-> oct + (i - 1)]
    ELSE [i \in 1..(oct - mid) |-> oct - (i - 1)]

\* lines 154-157 and 159-162: the probes of the octave loop up to the first
\* file found
RECURSIVE SearchFrom(_, _, _, _)
SearchFrom(note, order, i, dir) ==
    IF i > Len(order) THEN [path |-> None, probed |-> <<>>]
    ELSE IF isfile(ExactPath(note, order[i]), dir)
         THEN [path |-> <<ExactPath(note, order[i])>>,
               probed |-> <<ExactPath(note, order[i])>>]
         ELSE LET rest == SearchFrom(note, order, i + 1, dir)
              IN  [path |-> rest.path,
                   probed |-> <<ExactPath(note, order[i])>> \o rest.probed]

\* mutant: the octave-less file is looked up before the exact file
Resolve_GenericFirst(note, oct, dir) ==
    IF isfile(GenericPath(note), dir)
    THEN [path |-> <<GenericPath(note)>>, probed |-> <<GenericPath(note)>>]
    ELSE IF isfile(ExactPath(note, oct), dir)
    THEN [path |-> <<ExactPath(note, oct)>>,
          probed |-> <<GenericPath(note), ExactPath(note, oct)>>]
    ELSE LET found == SearchFrom(note, SearchOrder(oct), 1, dir)
         IN  [path |-> found.path,
              probed |-> <<GenericPath(note), ExactPath(note, oct)>> \o found.probed]

\* lines 148-162: the path chosen for one pitch and the files probed for it
Resolve(note, oct, dir) ==
    IF isfile(ExactPath(note, oct), dir)
    THEN [path |-> <<ExactPath(note, oct)>>, probed |-> <<ExactPath(note, oct)>>]
    ELSE IF isfile(GenericPath(note), dir)
    THEN [path |-> <<GenericPath(note)>>,
          probed |-> <<ExactPath(note, oct), GenericPath(note)>>]
    ELSE LET found == SearchFrom(note, SearchOrder(oct), 1, dir)
         IN  [path |-> found.path,
              probed |-> <<ExactPath(note, oct), GenericPath(note)>> \o found.probed]

NoteName(m) == value_to_note(m)[1] \o ToString(value_to_note(m)[2])

InitMap ==
    /\ pc = "map_videos"
    /\ files \in SUBSET FileUniverse
    /\ map_n = 0
    /\ probed = <<>>
    /\ video_map = EmptyMap
    /\ warned = <<>>
    /\ sched = EmptySched
    /\ pattern = None
    /\ max_ticks = 0
    /\ resolution = 0
    /\ initial_tempo = None
    /\ event_map = EmptyMap
    /\ seconds_per_tick = Zero
    /\ max_stack = 0
    /\ current_tick = 0
    /\ ei = 1
    /\ tempo_changes = 0
    /\ VideoIdle

Mapping == pc = "map_videos" /\ map_n < 128
ExactThere == isfile(ExactPath(value_to_note(map_n)[1], value_to_note(map_n)[2]), files)
GenericThere == isfile(GenericPath(value_to_note(map_n)[1]), files)

\* lines 145-167 for one n
MapStep ==
    LET r == Resolve(value_to_note(map_n)[1], value_to_note(map_n)[2], files)
    IN  /\ probed' = r.probed
        /\ IF r.path # None
           THEN /\ video_map' = (NoteName(map_n) :> r.path[1]) @@ video_map
                /\ UNCHANGED warned
           ELSE /\ warned' = Append(warned, NoteName(map_n))
                /\ UNCHANGED video_map
        /\ map_n' = map_n + 1
        /\ UNCHANGED <<pc, sched, schedVars, videoVars, files>>

MapExact == Mapping /\ ExactThere /\ MapStep
MapGeneric == Mapping /\ ~ExactThere /\ GenericThere /\ MapStep
MapSearchLow ==
    Mapping /\ ~ExactThere /\ ~GenericThere /\ value_to_note(map_n)[2] <= mid /\ MapStep
MapSearchHigh ==
    Mapping /\ ~ExactThere /\ ~GenericThere /\ value_to_note(map_n)[2] > mid /\ MapStep

\* line 169
MapReturn ==
    /\ pc = "map_videos"
    /\ map_n = 128
    /\ pc' = "done"
    /\ UNCHANGED <<sched, video_map, warned, schedVars, videoVars, mapVars>>

NextMap ==
    \/ MapExact
    \/ MapGeneric
    \/ MapSearchLow
    \/ MapSearchHigh
    \/ MapReturn

SpecMap == InitMap /\ [][NextMap]_vars

\* C10: for every pitch resolved so far the entry is the exact file when it
\* exists, else the octave-less file when that exists; the octave search is
\* reached (a third isfile probe is made) only when both are missing.
C10_ResolutionPriority ==
    /\ \A m \in 0..(map_n - 1) :
          LET note == value_to_note(m)[1]
              exact == ExactPath(note, value_to_note(m)[2])
              generic == GenericPath(note)
          IN  /\ exact \in files =>
                    NoteName(m) \in DOMAIN video_map /\ video_map[NoteName(m)] = exact
              /\ (exact \notin files /\ generic \in files) =>
                    NoteName(m) \in DOMAIN video_map /\ video_map[NoteName(m)] = generic
    /\ map_n > 0 =>
          LET note == value_to_note(map_n - 1)[1]
              exact == ExactPath(note, value_to_note(map_n - 1)[2])
              generic == GenericPath(note)
          IN  /\ probed[1] = exact
              /\ Len(probed) >= 2 => (exact \notin files /\ probed[2] = generic)
              /\ Len(probed) >= 3 => (exact \notin files /\ generic \notin files)

\* a directory holding only C.mp4 resolves C at every octave to C.mp4
C10_Witness ==
    /\ pc = "done"
    /\ files = {GenericPath("C")}
    /\ \A k \in 0..10 : video_map["C" \o ToString(k)] = "videos/C.mp4"

\* the exact file wins over the octave-less file
C10_ExactWitness ==
    /\ pc = "done"
    /\ GenericPath("C") \in files
    /\ ExactPath("C", 5) \in files
    /\ video_map["C5"] = "videos/C5.mp4"
    /\ video_map["C6"] = "videos/C.mp4"

\* the octaves from the home octave to the requested octave, both included
HomeToRequested(oct) == IF oct >= mid THEN mid..oct ELSE oct..mid

\* C11: when neither the exact nor the octave-less file exists, the entry is
\* the first existing file met from the home octave toward the requested
\* octave, and it is absent only if no octave from home to the requested
\* octave (both included) has a file, upward and downward alike.
C11_TertiaryFromHome ==
    \A m \in 0..(map_n - 1) :
        LET note == value_to_note(m)[1]
            oct == value_to_note(m)[2]
            there == {k \in HomeToRequested(oct) : ExactPath(note, k) \in files}
            nearest == CHOOSE k \in there :
                          \A j \in there : Abs(k - mid) <= Abs(j - mid)
        IN  (ExactPath(note, oct) \notin files /\ GenericPath(note) \notin files) =>
                IF there = {}
                THEN NoteName(m) \notin DOMAIN video_map
                ELSE /\ NoteName(m) \in DOMAIN video_map
                     /\ video_map[NoteName(m)] = ExactPath(note, nearest)

\* the part of C11 about absence alone: an entry is missing only if no
\* octave from home to the requested octave has a file
C11_AbsentOnlyIfNoneThere ==
    \A m \in 0..(map_n - 1) :
        LET note == value_to_note(m)[1]
            oct == value_to_note(m)[2]
        IN  NoteName(m) \notin DOMAIN video_map =>
                \A k \in HomeToRequested(oct) : ExactPath(note, k) \notin files


----------------------------------------------------------------------------
(* Start/end window of create_video *)

InWindow(rec) ==
    /\ args.start # None => ~RLess(rec[2], RInt(args.start[1]))
    /\ args.end # None => RLess(rec[2], RInt(args.end[1]))

Emitted == {clips[i].plan_key : i \in 1..Len(clips)}

\* C12: the records handed to the compositor are exactly the records with a
\* resolved clip whose start_seconds lies in [start, end): none before start,
\* none at or after end, none inside the window dropped.
C12_WindowExact ==
    pc \in {"compose", "done"} =>
        Emitted = {i \in 1..Len(plan) :
                      /\ VideoKey(plan[i], args) \in DOMAIN video_map
                      /\ InWindow(plan[i])}

\* the parts of C12 taken apart: nothing before start, nothing at or after
\* end, nothing inside the window dropped
C12_NoneBeforeStart ==
    \A i \in Emitted :
        args.start # None => ~RLess(plan[i][2], RInt(args.start[1]))

C12_NoneAtOrAfterEnd ==
    \A i \in Emitted :
        args.end # None => RLess(plan[i][2], RInt(args.end[1]))

C12_NoneDropped ==
    pc \in {"compose", "done"} =>
        \A i \in 1..Len(plan) :
            (VideoKey(plan[i], args) \in DOMAIN video_map /\ InWindow(plan[i]))
                => i \in Emitted


----------------------------------------------------------------------------
(* Playback trim window *)

RMin(a, b) == IF RLess(b, a) THEN b ELSE a

\* the emitted clips of released notes
ReleasedClips == {i \in 1..Len(clips) : RLess(Zero, plan[clips[i].plan_key][5])}

\* C13: for every emitted record with duration_seconds > 0 the trim window is
\* at most min(duration, maximum duration, clip length) plus the fade length,
\* and it never extends past the end of the source clip.
C13_TrimWindow ==
    \A i \in ReleasedClips :
        LET duration == plan[clips[i].plan_key][5]
            source == clip_duration(clips[i].path)
            bound == RAdd(RMin(RMin(duration, MIN_DURATION), source), args.fade_time)
        IN  /\ ~RLess(bound, clips[i].length)
            /\ ~RLess(source, clips[i].length)

\* the two parts of C13 taken apart
C13_CutToDuration ==
    \A i \in ReleasedClips :
        LET duration == plan[clips[i].plan_key][5]
            source == clip_duration(clips[i].path)
            bound == RAdd(RMin(RMin(duration, MIN_DURATION), source), args.fade_time)
        IN  ~RLess(bound, clips[i].length)

C13_WithinSource ==
    \A i \in ReleasedClips :
        ~RLess(clip_duration(clips[i].path), clips[i].length)


----------------------------------------------------------------------------
(* Lane annotations *)

WellFormed(lane_index, group_size) ==
    \/ lane_index = 0 /\ group_size = 0
    \/ group_size >= 2 /\ 0 <= lane_index /\ lane_index < group_size

\* C14: at every record of the scan the annotation is (0, 0) or has
\* group_size >= 2 and 0 <= lane_index < group_size; group_size 1 is never
\* reported, and the lane-width division is never reached with group_size 0.
C14_WellFormed ==
    /\ \A i \in 1..Len(ann) :
          /\ WellFormed(ann[i].lane_index, ann[i].group_size)
          /\ ann[i].group_size # 1
    /\ (pc = "scan" /\ Len(ann) > 0) =>
          /\ look_ahead_index = ann[Len(ann)].lane_index
          /\ look_ahead_group_size = ann[Len(ann)].group_size
    /\ (Scanning /\ ~Skipped) =>
          ((LaneNow.look_ahead_index # 0 \/ LaneNow.look_ahead_group_size # 0)
              => LaneNow.look_ahead_group_size # 0)

\* a scan that met a group of three (lanes 0, 1, 2, the last one cropped to a
\* third of the canvas) and a solo record
C14_Witness ==
    /\ pc = "done"
    /\ \E i \in 1..Len(ann) : ann[i].group_size = 3 /\ ann[i].lane_index = 2
    /\ \E i \in 1..Len(ann) : ann[i].group_size = 0 /\ ann[i].lane_index = 0
    /\ \E i \in 1..Len(clips) : clips[i].crop[2] = Size[1] \div 3 /\ clips[i].pos[1] > 0


----------------------------------------------------------------------------
(* Tick Indexer *)

\* the absolute tick of the i-th event: the sum of the deltas up to it
RECURSIVE AbsTick(_, _)
AbsTick(track, i) == IF i = 0 THEN 0 ELSE track[i].tick + AbsTick(track, i - 1)

\* the events of the track at absolute tick t, in track order
RECURSIVE EventsAt(_, _, _)
EventsAt(track, t, i) ==
    IF i > Len(track) THEN <<>>
    ELSE IF AbsTick(track, i) = t
         THEN <<track[i]>> \o EventsAt(track, t, i + 1)
         ELSE EventsAt(track, t, i + 1)

RECURSIVE SumLen(_, _)
SumLen(map, keys) ==
    IF keys = {} THEN 0
    ELSE LET k == CHOOSE x \in keys : TRUE
         IN  Len(map[k]) + SumLen(map, keys \ {k})

Indexed == pc \notin {"analyze", "index"}

\* C15: map_events_by_tick puts each event in exactly one bucket, the bucket
\* of its absolute tick, and the events of a bucket keep their track order:
\* nothing is lost, duplicated or reordered.
C15_TickIndex ==
    Indexed =>
        /\ DOMAIN event_map =
              {AbsTick(ScheduledTrack, i) : i \in 1..Len(ScheduledTrack)}
        /\ \A t \in DOMAIN event_map :
              event_map[t] = EventsAt(ScheduledTrack, t, 1)
        /\ SumLen(event_map, DOMAIN event_map) = Len(ScheduledTrack)

\* a track of three events indexed into tick 1 (one event) and tick 2 (two
\* events, the second with delta 0)
C15_Witness ==
    /\ pc = "plan"
    /\ Len(ScheduledTrack) = 3
    /\ DOMAIN event_map = {1, 2}
    /\ Len(event_map[2]) = 2
    /\ event_map[2][1] # event_map[2][2]
    /\ event_map[2][2].tick = 0


----------------------------------------------------------------------------
(* Scheduling scope *)

\* the NoteOn events of the track at an absolute tick below stop, in track
\* order, as <<tick, note, octave, channel, velocity>>
RECURSIVE NoteOnsBelow(_, _, _)
NoteOnsBelow(track, stop, i) ==
    IF i > Len(track) THEN <<>>
    ELSE IF track[i].type = "NoteOnEvent" /\ AbsTick(track, i) < stop
         THEN <<<<AbsTick(track, i), value_to_note(track[i].pitch)[1],
                  value_to_note(track[i].pitch)[2], track[i].channel,
                  track[i].velocity>>>>
              \o NoteOnsBelow(track, stop, i + 1)
         ELSE NoteOnsBelow(track, stop, i + 1)

PlanNotes ==
    [i \in 1..Len(plan) |->
        <<plan[i][1], plan[i][3], plan[i][4], hist[i].channel, plan[i][6]>>]

C16_Inv ==
    /\ Scheduling =>
          \A i \in 1..Len(plan) :
              /\ 0 <= plan[i][1] /\ plan[i][1] < max_ticks
              /\ hist[i].writes > 0 => hist[i].off_tick < max_ticks
    /\ pc = "done" => PlanNotes = NoteOnsBelow(ScheduledTrack, max_ticks, 1)

C16_ScopeStep ==
    (pc \in {"tick", "events"} /\ sched' # sched) =>
        /\ pc = "events"
        /\ 0 <= current_tick /\ current_tick < max_ticks
        /\ CurEvent.type \in {"NoteOnEvent", "NoteOffEvent"}

\* C16: generate_track_plan processes exactly the events at an absolute tick
\* in [0, max_ticks): every NoteOn there gives exactly one plan record, and
\* no event at a tick >= max_ticks changes the plan or the open-note index.
C16_Scope == []C16_Inv /\ [][C16_ScopeStep]_vars

\* a finished schedule whose track ends with a NoteOff at tick max_ticks for
\* the key of the only record: the record is still open
C16_Witness ==
    /\ pc = "done"
    /\ Len(plan) = 1
    /\ \E i \in 1..Len(ScheduledTrack) :
          /\ ScheduledTrack[i].type = "NoteOffEvent"
          /\ AbsTick(ScheduledTrack, i) = max_ticks
          /\ EventKey(ScheduledTrack[i]) = KeyOf(1)
          /\ get_note_key(plan[1][3], plan[1][4], hist[1].channel)
                 \in DOMAIN notes_currently_playing

\* a finished schedule whose track ends with a NoteOn at tick max_ticks: it
\* left no record
C16_NoteOnWitness ==
    /\ pc = "done"
    /\ Len(plan) = 1
    /\ \E i \in 1..Len(ScheduledTrack) :
          /\ ScheduledTrack[i].type = "NoteOnEvent"
          /\ AbsTick(ScheduledTrack, i) = max_ticks


----------------------------------------------------------------------------
(* Tempo Clock *)

\* the number of track events at an absolute tick below t
EventsBefore(track, t) == Cardinality({i \in 1..Len(track) : AbsTick(track, i) < t})

\* the tempo most recently processed once the first n events of the track
\* are processed: the last SetTempoEvent among them, else the initial tempo
BpmAfter(track, n) ==
    LET tempos == {i \in 1..n : track[i].type = "SetTempoEvent"}
    IN  IF tempos = {} THEN initial_tempo[1]
        ELSE track[CHOOSE i \in tempos : \A j \in tempos : j <= i].bpm

\* the events processed so far by generate_track_plan
Processed ==
    EventsBefore(ScheduledTrack, current_tick) + (IF pc = "events" THEN ei - 1 ELSE 0)

\* the events processed before the NoteOn of plan record i
ProcessedBefore(i) == EventsBefore(ScheduledTrack, plan[i][1]) + hist[i].ev - 1

Coefficient(bpm) == Rat(60, bpm * resolution)

\* C17: the coefficient is 60 / (bpm * resolution) for the most recently
\* processed tempo (the initial tempo before any tempo change; a change takes
\* effect for the events after it in its tick's list), and every record's
\* start_seconds is the coefficient in force at its NoteOn times its absolute
\* start_tick, with no re-integration of the ticks under earlier tempos.
C17_TempoClock ==
    Scheduling =>
        /\ seconds_per_tick = Coefficient(BpmAfter(ScheduledTrack, Processed))
        /\ \A i \in 1..Len(plan) :
              /\ hist[i].on_spt =
                    Coefficient(BpmAfter(ScheduledTrack, ProcessedBefore(i)))
              /\ plan[i][2] = RMulInt(hist[i].on_spt, plan[i][1])

\* two NoteOns in tick 1 with a tempo change between them: the first starts
\* at the initial coefficient times 1, the second at the new coefficient
\* times 1
C17_Witness ==
    /\ pc = "done"
    /\ Len(plan) = 2
    /\ plan[1][1] = 1 /\ plan[2][1] = 1
    /\ hist[1].on_tempo = 0 /\ hist[2].on_tempo = 1
    /\ plan[1][2] = Coefficient(initial_tempo[1])
    /\ plan[2][2] # plan[1][2]


----------------------------------------------------------------------------
(* Durations and start times under tempo changes *)

\* C18: every closed plan record has duration_seconds >= 0, also when a
\* tempo change lies between the note's onset and its release.
C18_DurationNonNegative ==
    Scheduling => \A i \in 1..Len(plan) : Closed(i) => ~RLess(plan[i][5], Zero)

\* the same for the records closed under the coefficient of their onset
C18_ConstantTempoNonNegative ==
    Scheduling =>
        \A i \in 1..Len(plan) :
            (Closed(i) /\ hist[i].on_spt = hist[i].off_spt) => ~RLess(plan[i][5], Zero)

\* C19: start_seconds is non-decreasing along the plan, also with tempo
\* changes, so the last record holds the greatest start time and the records
\* before a start time form a prefix of the plan.
C19_StartSecondsOrdered ==
    Scheduling =>
        /\ \A i, j \in 1..Len(plan) : i < j => ~RLess(plan[j][2], plan[i][2])
        /\ \A i \in 1..Len(plan) : ~RLess(plan[Len(plan)][2], plan[i][2])

\* the same for the records that started under one coefficient
C19_ConstantTempoOrdered ==
    Scheduling =>
        \A i, j \in 1..Len(plan) :
            (i < j /\ hist[i].on_spt = hist[j].on_spt) => ~RLess(plan[j][2], plan[i][2])


----------------------------------------------------------------------------
(* Lane placement: lines 261-268 applied to the records of one group, lane  *)
(* by lane, on a canvas of any width                                        *)

Widths == 1..MaxWidth
GroupSizes == 2..MaxLanes

InitLanes ==
    /\ pc = "lanes"
    /\ \E w \in Widths :
          args = [start |-> None, end |-> None, combine_threashold |-> 0,
                  fade_time |-> Zero, volumex |-> 2, shift_octave |-> 0,
                  size |-> <<w, Size[2]>>]
    /\ look_ahead_group_size \in GroupSizes
    /\ look_ahead_index = 0
    /\ look_ahead = look_ahead_group_size
    /\ clips = <<>>
    /\ end_time = Zero
    /\ plan_key = 1
    /\ ann = <<>>
    /\ progress = <<>>
    /\ sched = EmptySched
    /\ video_map = EmptyMap
    /\ warned = <<>>
    /\ pattern = None
    /\ max_ticks = 0
    /\ resolution = 0
    /\ initial_tempo = None
    /\ event_map = EmptyMap
    /\ seconds_per_tick = Zero
    /\ max_stack = 0
    /\ current_tick = 0
    /\ ei = 1
    /\ tempo_changes = 0
    /\ MapIdle

\* lines 262-268 for the next record of the group; lines 207-211 for the
\* record after it
PlaceLane ==
    /\ pc = "lanes"
    /\ look_ahead > 0
    /\ clips' = Append(clips,
                   LaneClip(args.size[1], look_ahead_group_size, look_ahead_index))
    /\ look_ahead' = look_ahead - 1
    /\ look_ahead_index' = IF look_ahead - 1 > 0
                           THEN LaneIndex(look_ahead_group_size, look_ahead - 1)
                           ELSE look_ahead_index
    /\ UNCHANGED <<pc, sched, video_map, warned, schedVars, mapVars, args, end_time,
                   look_ahead_group_size, plan_key, ann, progress>>

\* the group is placed
LanesDone ==
    /\ pc = "lanes"
    /\ look_ahead = 0
    /\ pc' = "done"
    /\ UNCHANGED <<sched, video_map, warned, schedVars, mapVars, videoVars>>

NextLanes == PlaceLane \/ LanesDone

SpecLanes == InitLanes /\ [][NextLanes]_vars

Width == args.size[1]
LaneLeft(i) == clips[i + 1].pos[1]
LaneWidth(i) == clips[i + 1].crop[2]
Placed == 0..(Len(clips) - 1)

\* C20: for a canvas width W >= group_size and a group of g >= 2, lane i is
\* at x = floor(W / g) * i with width floor(W / g); the lanes do not overlap,
\* are ordered left to right by lane index, and each lies within [0, W).
C20_LaneGeometry ==
    (pc \in {"lanes", "done"} /\ Width >= look_ahead_group_size) =>
        LET g == look_ahead_group_size
        IN  /\ pc = "done" => Len(clips) = g
            /\ \A i \in Placed :
                  /\ LaneLeft(i) = (Width \div g) * i
                  /\ LaneWidth(i) = Width \div g
                  /\ LaneWidth(i) >= 1
                  /\ 0 <= LaneLeft(i)
                  /\ LaneLeft(i) + LaneWidth(i) <= Width
                  /\ clips[i + 1].crop[1] >= 0
                  /\ clips[i + 1].crop[1] + LaneWidth(i) <= Width
            /\ \A i, j \in Placed :
                  i < j => LaneLeft(i) + LaneWidth(i) <= LaneLeft(j)

\* three lanes on a canvas whose width is not a multiple of three
C20_Witness ==
    /\ pc = "done"
    /\ look_ahead_group_size = 3
    /\ Len(clips) = 3
    /\ Width > 3
    /\ Width % 3 # 0
    /\ LaneLeft(2) = 2 * (Width \div 3)

\* without the precondition: on a canvas narrower than the group the lanes
\* have width 0
C20_NarrowCanvasWitness ==
    /\ pc = "done"
    /\ Width < look_ahead_group_size
    /\ \A i \in Placed : LaneWidth(i) = 0 /\ LaneLeft(i) = 0

====
